---- MODULE Spec2Model ----
(***************************************************************************)
(* Reminder scheduling and response service of the Medipoint application:  *)
(* NotificationService (scheduleReminder, cancelReminder, deleteReminder,  *)
(* the notification response listener with its 'taken' and 'snooze'        *)
(* handlers), the AsyncStorage collections it shares with the screens, the  *)
(* platform scheduler it registers triggers with, and the two screens that  *)
(* drive it (NotificationSetup and the medicine tab).                       *)
(*                                                                         *)
(* Every handler is one action: the awaited calls of a handler run to       *)
(* completion before the next handler starts.                               *)
(***************************************************************************)
EXTENDS Integers, Sequences, FiniteSets, TLC

(***************************************************************************)
(* Bounds of the model.                                                     *)
(***************************************************************************)
\* identifiers the platform scheduler hands out
MaxHandles == 3
\* medications the medicine tab adds
MaxMeds == 2
\* readings of the wall clock
MaxNow == 2

\* characters of an address
MaxAddressLen == 10

(***************************************************************************)
(* JavaScript values.                                                       *)
(***************************************************************************)
Undefined == "undefined"
Null == "null"
\* Number(s) of a string that is no numeral; also stands for a missing
\* element of a destructured array, which is no number either
NaN == -1

\* if (v) / !v on a string, undefined or null
Truthy(v) == v \notin {Undefined, Null, ""}

\* o.f on an object that may lack the property
Get(o, f) == IF f \in DOMAIN o THEN o[f] ELSE Undefined

\* { ...o, f: v }
With(o, f, v) == [g \in DOMAIN o \cup {f} |-> IF g = f THEN v ELSE o[g]]

\* the properties declared optional (notificationId?, lastTaken?): the only
\* ones that are ever undefined
OptionalProperties == {"notificationId", "lastTaken"}

\* JSON.stringify of an object: a property whose value is undefined is omitted
StringifyObject(o) ==
  [g \in {h \in DOMAIN o : ~(h \in OptionalProperties /\ o[h] = Undefined)} |-> o[g]]

\* JSON.stringify of an array of objects, as the JSON value it denotes
JsonStringify(a) == [i \in 1..Len(a) |-> StringifyObject(a[i])]

\* JSON.parse of a stored text
JsonParse(text) == text

\* new Date(t).toISOString()
ToISOString(t) == "T" \o ToString(t)

(***************************************************************************)
(* Strings the code takes apart are sequences of one-character strings.     *)
(***************************************************************************)
Digits == <<"0", "1", "2", "3", "4", "5", "6", "7", "8", "9">>

DigitChar(n) == Digits[n + 1]

DigitVal(c) == CHOOSE n \in 0..9 : Digits[n + 1] = c

IsDigit(c) == \E n \in 0..9 : Digits[n + 1] = c

\* s.split(sep) for a one-character separator
RECURSIVE Split(_, _)
Split(s, sep) ==
  IF \E i \in 1..Len(s) : s[i] = sep
  THEN LET i == CHOOSE k \in 1..Len(s) :
                  s[k] = sep /\ \A j \in 1..(k - 1) : s[j] # sep
       IN <<SubSeq(s, 1, i - 1)>> \o Split(SubSeq(s, i + 1, Len(s)), sep)
  ELSE <<s>>

RECURSIVE DecimalValue(_)
DecimalValue(s) ==
  IF s = <<>> THEN 0
  ELSE 10 * DecimalValue(SubSeq(s, 1, Len(s) - 1)) + DigitVal(s[Len(s)])

\* Number(s) for a string of digits; the empty string is 0, anything else NaN
Number(s) ==
  IF \A i \in 1..Len(s) : IsDigit(s[i]) THEN DecimalValue(s) ELSE NaN

\* const [hours, minutes] = scheduledTime.split(':').map(Number)
ParseTime(scheduledTime) ==
  LET parts == Split(scheduledTime, ":")
  IN [hours |-> Number(parts[1]),
      minutes |-> IF Len(parts) >= 2 THEN Number(parts[2]) ELSE NaN]

\* the text HH:MM of a time of day
FormatTime(h, m) ==
  <<DigitChar(h \div 10), DigitChar(h % 10), ":",
    DigitChar(m \div 10), DigitChar(m % 10)>>

HoursPerDay == 24
MinutesPerHour == 60
DaysPerWeek == 7

\* scheduledTime of a new reminder
DefaultTime == FormatTime(9, 0)

(***************************************************************************)
(* State.                                                                   *)
(***************************************************************************)
VARIABLES
  storage,        \* AsyncStorage: key -> <<>> (absent) or <<JSON value>>
  scheduled,      \* the platform scheduler's pending notification requests
  nextHandle,     \* number of the next identifier the scheduler hands out
  now,            \* the wall clock
  medications,    \* medicine tab: useState medications
  last,           \* the handler that ran last: its input, calls and result
  isInitialized,  \* NotificationService.isInitialized
  listeners,      \* response listeners added to the platform
  isDevice,       \* Device.isDevice
  tasks           \* the asynchronous calls in flight, each at an await

vars ==
  <<storage, scheduled, nextHandle, now, medications, last,
    isInitialized, listeners, isDevice, tasks>>

RemindersKey == "medication_reminders"
MedicationsKey == "medications"

Absent == <<>>
Stored(text) == <<text>>

(***************************************************************************)
(* The platform, as the service sees it.  A world w is the part of the      *)
(* state a handler works on, with the log of the calls it has issued and    *)
(* w.fail, the calls the platform rejects during this handler.              *)
(***************************************************************************)
NoFailure == [getItem |-> FALSE, setItem |-> FALSE, cancel |-> FALSE, schedule |-> 0]

World(fail) ==
  [storage |-> storage, scheduled |-> scheduled, nextHandle |-> nextHandle,
   calls |-> <<>>, fail |-> fail]

IsScheduleCall(c) == c.op = "scheduleNotificationAsync"
IsRegisterCall(c) == IsScheduleCall(c) /\ c.trigger.type # "immediate"
IsCancelCall(c) == c.op = "cancelScheduledNotificationAsync"
IsRegistrarCall(c) == IsScheduleCall(c) \/ IsCancelCall(c)
IsWriteCall(c) == c.op = "setItem"

\* AsyncStorage.getItem(key)
GetItem(w, key) ==
  LET call == [op |-> "getItem", key |-> key, rejected |-> w.fail.getItem]
  IN [w |-> [w EXCEPT !.calls = Append(@, call)],
      threw |-> w.fail.getItem,
      value |-> IF w.fail.getItem THEN Absent ELSE w.storage[key]]

\* AsyncStorage.setItem(key, text)
SetItem(w, key, text) ==
  LET call == [op |-> "setItem", key |-> key, rejected |-> w.fail.setItem]
  IN [w |-> [w EXCEPT !.calls = Append(@, call),
                      !.storage = IF w.fail.setItem THEN @
                                  ELSE [@ EXCEPT ![key] = Stored(text)]],
      threw |-> w.fail.setItem]

\* Notifications.scheduleNotificationAsync({content, trigger}): a trigger of
\* null presents the notification at once, any other is kept until cancelled
ScheduleNotificationAsync(w, data, trigger) ==
  LET n == Len(SelectSeq(w.calls, IsScheduleCall)) + 1
      rejected == w.fail.schedule = n
      id == IF rejected THEN Undefined ELSE "id" \o ToString(w.nextHandle)
      call == [op |-> "scheduleNotificationAsync", trigger |-> trigger,
               data |-> data, identifier |-> id, rejected |-> rejected]
      request == [identifier |-> id, trigger |-> trigger, data |-> data]
  IN [w |-> [w EXCEPT !.calls = Append(@, call),
                      !.nextHandle = IF rejected THEN @ ELSE @ + 1,
                      !.scheduled = IF rejected \/ trigger.type = "immediate"
                                    THEN @ ELSE @ \cup {request}],
      threw |-> rejected,
      value |-> id]

\* Notifications.cancelScheduledNotificationAsync(identifier): an identifier
\* that names no pending request is no error
CancelScheduledNotificationAsync(w, identifier) ==
  LET call == [op |-> "cancelScheduledNotificationAsync",
               identifier |-> identifier, rejected |-> w.fail.cancel]
  IN [w |-> [w EXCEPT !.calls = Append(@, call),
                      !.scheduled = IF w.fail.cancel THEN @
                                    ELSE {s \in @ : s.identifier # identifier}],
      threw |-> w.fail.cancel]

(***************************************************************************)
(* NotificationService.                                                     *)
(***************************************************************************)
AdherenceBonus == 2
MaxAdherence == 100
SnoozeMinutes == 15
SecondsPerMinute == 60

Min(a, b) == IF a < b THEN a ELSE b
Max(a, b) == IF a > b THEN a ELSE b

\* cancelReminder that clears every pending request
CancelReminder_CancelsAll(w, notificationId) ==
  [CancelScheduledNotificationAsync(w, notificationId).w EXCEPT !.scheduled = {}]

\* cancelReminder(notificationId): a rejection is caught and logged
CancelReminder(w, notificationId) ==
  CancelScheduledNotificationAsync(w, notificationId).w

\* getReminders(): [] when the key is absent or the read fails
GetReminders(w) ==
  LET got == GetItem(w, RemindersKey)
  IN [w |-> got.w,
      value |-> IF got.threw \/ got.value = Absent THEN <<>>
                ELSE JsonParse(got.value[1])]

\* updatedReminders without the filter on id
UpdatedReminders_NoFilter(existingReminders, reminder) ==
  Append(existingReminders, reminder)

\* existingReminders.filter(r => r.id !== reminder.id) followed by push(reminder)
UpdatedReminders(existingReminders, reminder) ==
  Append(SelectSeq(existingReminders, LAMBDA r : r.id # reminder.id), reminder)

\* saveReminder(reminder): a failed write is caught and logged
SaveReminder(w, reminder) ==
  LET existing == GetReminders(w)
      updatedReminders == UpdatedReminders(existing.value, reminder)
  IN SetItem(existing.w, RemindersKey, JsonStringify(updatedReminders)).w

\* a weekly trigger numbered Monday = 1 .. Sunday = 7
WeeklyTrigger_IsoWeekday(dayOfWeek, time) ==
  [type |-> "weekly",
   weekday |-> IF dayOfWeek = 0 THEN DaysPerWeek ELSE dayOfWeek,
   hour |-> time.hours,
   minute |-> time.minutes,
   repeats |-> TRUE]

\* the weekly trigger of one day of a reminder
WeeklyTrigger(dayOfWeek, time) ==
  [type |-> "weekly",
   weekday |-> IF dayOfWeek = 0 THEN 1 ELSE dayOfWeek + 1,
   hour |-> time.hours,
   minute |-> time.minutes,
   repeats |-> TRUE]

\* content.data of a reminder's notifications
ReminderData(reminder) ==
  [medicationId |-> reminder.medicationId,
   reminderTime |-> reminder.scheduledTime,
   type |-> "medicine_reminder"]

\* for (const dayOfWeek of reminder.days) { ... notificationIds.push(...) }
RECURSIVE ScheduleEachDay(_, _, _, _)
ScheduleEachDay(w, reminder, i, notificationIds) ==
  IF i > Len(reminder.days)
  THEN [w |-> w, threw |-> FALSE, value |-> notificationIds]
  ELSE LET r == ScheduleNotificationAsync(
                  w, ReminderData(reminder),
                  WeeklyTrigger(reminder.days[i], ParseTime(reminder.scheduledTime)))
       IN IF r.threw
          THEN [w |-> r.w, threw |-> TRUE, value |-> notificationIds]
          ELSE ScheduleEachDay(r.w, reminder, i + 1, Append(notificationIds, r.value))

\* scheduleReminder that cancels the stored trigger before it looks at enabled
ScheduleReminder_CancelsWhenDisabled(w, reminder) ==
  LET w1 == IF Truthy(Get(reminder, "notificationId"))
            THEN CancelReminder(w, reminder.notificationId)
            ELSE w
      loop == ScheduleEachDay(w1, reminder, 1, <<>>)
      primaryNotificationId ==
        IF Len(loop.value) > 0 THEN loop.value[1] ELSE Undefined
  IN IF ~reminder.enabled THEN [w |-> w1, value |-> Null]
     ELSE IF loop.threw THEN [w |-> loop.w, value |-> Null]
     ELSE [w |-> SaveReminder(
                   loop.w, With(reminder, "notificationId", primaryNotificationId)),
           value |-> primaryNotificationId]

\* scheduleReminder that cancels the stored trigger after registering the new ones
ScheduleReminder_CancelsLast(w, reminder) ==
  IF ~reminder.enabled THEN [w |-> w, value |-> Null]
  ELSE LET loop == ScheduleEachDay(w, reminder, 1, <<>>)
           w2 == IF Truthy(Get(reminder, "notificationId"))
                 THEN CancelReminder(loop.w, reminder.notificationId)
                 ELSE loop.w
           primaryNotificationId ==
             IF Len(loop.value) > 0 THEN loop.value[1] ELSE Undefined
       IN IF loop.threw THEN [w |-> loop.w, value |-> Null]
          ELSE [w |-> SaveReminder(
                        w2, With(reminder, "notificationId", primaryNotificationId)),
                value |-> primaryNotificationId]

\* scheduleReminder that keeps the last notification id as the primary one
ScheduleReminder_KeepsLastId(w, reminder) ==
  IF ~reminder.enabled THEN [w |-> w, value |-> Null]
  ELSE LET w1 == IF Truthy(Get(reminder, "notificationId"))
                 THEN CancelReminder(w, reminder.notificationId)
                 ELSE w
           loop == ScheduleEachDay(w1, reminder, 1, <<>>)
           primaryNotificationId ==
             IF Len(loop.value) > 0 THEN loop.value[Len(loop.value)] ELSE Undefined
       IN IF loop.threw THEN [w |-> loop.w, value |-> Null]
          ELSE [w |-> SaveReminder(
                        loop.w, With(reminder, "notificationId", primaryNotificationId)),
                value |-> primaryNotificationId]

\* scheduleReminder that returns null at once for a reminder without days
ScheduleReminder_SkipsEmptyDays(w, reminder) ==
  IF ~reminder.enabled \/ reminder.days = <<>> THEN [w |-> w, value |-> Null]
  ELSE LET w1 == IF Truthy(Get(reminder, "notificationId"))
                 THEN CancelReminder(w, reminder.notificationId)
                 ELSE w
           loop == ScheduleEachDay(w1, reminder, 1, <<>>)
           primaryNotificationId ==
             IF Len(loop.value) > 0 THEN loop.value[1] ELSE Undefined
       IN IF loop.threw THEN [w |-> loop.w, value |-> Null]
          ELSE [w |-> SaveReminder(
                        loop.w, With(reminder, "notificationId", primaryNotificationId)),
                value |-> primaryNotificationId]

\* scheduleReminder that saves what it registered when a later day is rejected
ScheduleReminder_SavesPartial(w, reminder) ==
  IF ~reminder.enabled THEN [w |-> w, value |-> Null]
  ELSE LET w1 == IF Truthy(Get(reminder, "notificationId"))
                 THEN CancelReminder(w, reminder.notificationId)
                 ELSE w
           loop == ScheduleEachDay(w1, reminder, 1, <<>>)
           primaryNotificationId ==
             IF Len(loop.value) > 0 THEN loop.value[1] ELSE Undefined
       IN [w |-> SaveReminder(
                   loop.w, With(reminder, "notificationId", primaryNotificationId)),
           value |-> IF loop.threw THEN Null ELSE primaryNotificationId]

\* scheduleReminder(reminder)
ScheduleReminder(w, reminder) ==
  IF ~reminder.enabled THEN [w |-> w, value |-> Null]
  ELSE LET w1 == IF Truthy(Get(reminder, "notificationId"))
                 THEN CancelReminder(w, reminder.notificationId)
                 ELSE w
           loop == ScheduleEachDay(w1, reminder, 1, <<>>)
           primaryNotificationId ==
             IF Len(loop.value) > 0 THEN loop.value[1] ELSE Undefined
       IN IF loop.threw THEN [w |-> loop.w, value |-> Null]
          ELSE [w |-> SaveReminder(
                        loop.w, With(reminder, "notificationId", primaryNotificationId)),
                value |-> primaryNotificationId]

\* deleteReminder that removes the entry and leaves its trigger registered
DeleteReminder_NoCancel(w, reminderId) ==
  LET got == GetReminders(w)
      updatedReminders == SelectSeq(got.value, LAMBDA r : r.id # reminderId)
  IN SetItem(got.w, RemindersKey, JsonStringify(updatedReminders)).w

\* deleteReminder(reminderId)
DeleteReminder(w, reminderId) ==
  LET got == GetReminders(w)
      found == SelectSeq(got.value, LAMBDA r : r.id = reminderId)
      w1 == IF found # <<>> /\ Truthy(Get(found[1], "notificationId"))
            THEN CancelReminder(got.w, found[1].notificationId)
            ELSE got.w
      updatedReminders == SelectSeq(got.value, LAMBDA r : r.id # reminderId)
  IN SetItem(w1, RemindersKey, JsonStringify(updatedReminders)).w

ImmediateTrigger == [type |-> "immediate"]

\* showLocalNotification(title, body, data): a rejection is thrown on
ShowLocalNotification(w, data) ==
  ScheduleNotificationAsync(w, data, ImmediateTrigger)

\* handleMedicationTaken without the Math.min(100, ...) clamp
HandleMedicationTaken_NoClamp(w, medicationId, reminderTime, t) ==
  LET got == GetItem(w, MedicationsKey)
  IN IF got.threw \/ got.value = Absent THEN got.w
     ELSE LET meds == JsonParse(got.value[1])
              updatedMedications ==
                [i \in 1..Len(meds) |->
                   IF meds[i].id = medicationId
                   THEN With(With(meds[i], "lastTaken", ToISOString(t)),
                             "adherence", meds[i].adherence + AdherenceBonus)
                   ELSE meds[i]]
              put == SetItem(got.w, MedicationsKey, JsonStringify(updatedMedications))
          IN IF put.threw THEN put.w
             ELSE ShowLocalNotification(put.w, [type |-> "confirmation"]).w

\* handleMedicationTaken that updates every medication, whatever its id
HandleMedicationTaken_UpdatesAll(w, medicationId, reminderTime, t) ==
  LET got == GetItem(w, MedicationsKey)
  IN IF got.threw \/ got.value = Absent THEN got.w
     ELSE LET meds == JsonParse(got.value[1])
              updatedMedications ==
                [i \in 1..Len(meds) |->
                   With(With(meds[i], "lastTaken", ToISOString(t)),
                        "adherence",
                        Min(MaxAdherence, meds[i].adherence + AdherenceBonus))]
              put == SetItem(got.w, MedicationsKey, JsonStringify(updatedMedications))
          IN IF put.threw THEN put.w
             ELSE ShowLocalNotification(put.w, [type |-> "confirmation"]).w

\* the try block of handleMedicationTaken: threw tells whether it ended in
\* an exception
TryHandleMedicationTaken(w, medicationId, reminderTime, t) ==
  LET got == GetItem(w, MedicationsKey)
  IN IF got.threw THEN [w |-> got.w, threw |-> TRUE]
     ELSE IF got.value = Absent THEN [w |-> got.w, threw |-> FALSE]
     ELSE LET meds == JsonParse(got.value[1])
              updatedMedications ==
                [i \in 1..Len(meds) |->
                   IF meds[i].id = medicationId
                   THEN With(With(meds[i], "lastTaken", ToISOString(t)),
                             "adherence",
                             Min(MaxAdherence, meds[i].adherence + AdherenceBonus))
                   ELSE meds[i]]
              put == SetItem(got.w, MedicationsKey, JsonStringify(updatedMedications))
              shown == ShowLocalNotification(put.w, [type |-> "confirmation"])
          IN IF put.threw THEN [w |-> put.w, threw |-> TRUE]
             ELSE [w |-> shown.w, threw |-> shown.threw]

\* handleMedicationTaken(medicationId, reminderTime), at clock reading t:
\* what the try block throws is caught and logged
HandleMedicationTaken(w, medicationId, reminderTime, t) ==
  TryHandleMedicationTaken(w, medicationId, reminderTime, t).w

\* handleSnoozeReminder that first cancels the pending requests of the
\* medication
HandleSnoozeReminder_ReplacesPending(w, medicationId, reminderTime) ==
  LET trigger == [type |-> "timeInterval",
                  seconds |-> SnoozeMinutes * SecondsPerMinute,
                  repeats |-> FALSE]
      got == GetItem(w, MedicationsKey)
      kept == [got.w EXCEPT !.scheduled =
                 {s \in @ : Get(s.data, "medicationId") # medicationId}]
      reg == ScheduleNotificationAsync(
               kept,
               [medicationId |-> medicationId, reminderTime |-> reminderTime,
                type |-> "snoozed_reminder"],
               trigger)
  IN IF got.threw THEN got.w
     ELSE IF reg.threw THEN reg.w
     ELSE ShowLocalNotification(reg.w, [type |-> "confirmation"]).w

\* a try block of handleSnoozeReminder whose follow-up carries the default
\* time in place of the reminder's
TryHandleSnoozeReminder_DefaultTime(w, medicationId, reminderTime) ==
  LET trigger == [type |-> "timeInterval",
                  seconds |-> SnoozeMinutes * SecondsPerMinute,
                  repeats |-> FALSE]
      got == GetItem(w, MedicationsKey)
      reg == ScheduleNotificationAsync(
               got.w,
               [medicationId |-> medicationId, reminderTime |-> DefaultTime,
                type |-> "snoozed_reminder"],
               trigger)
      shown == ShowLocalNotification(reg.w, [type |-> "confirmation"])
  IN IF got.threw THEN [w |-> got.w, threw |-> TRUE]
     ELSE IF reg.threw THEN [w |-> reg.w, threw |-> TRUE]
     ELSE [w |-> shown.w, threw |-> shown.threw]

\* the try block of handleSnoozeReminder: threw tells whether it ended in an
\* exception
TryHandleSnoozeReminder(w, medicationId, reminderTime) ==
  LET trigger == [type |-> "timeInterval",
                  seconds |-> SnoozeMinutes * SecondsPerMinute,
                  repeats |-> FALSE]
      got == GetItem(w, MedicationsKey)
      reg == ScheduleNotificationAsync(
               got.w,
               [medicationId |-> medicationId, reminderTime |-> reminderTime,
                type |-> "snoozed_reminder"],
               trigger)
      shown == ShowLocalNotification(reg.w, [type |-> "confirmation"])
  IN IF got.threw THEN [w |-> got.w, threw |-> TRUE]
     ELSE IF reg.threw THEN [w |-> reg.w, threw |-> TRUE]
     ELSE [w |-> shown.w, threw |-> shown.threw]

\* handleSnoozeReminder(medicationId, reminderTime): what the try block
\* throws is caught and logged
HandleSnoozeReminder(w, medicationId, reminderTime) ==
  TryHandleSnoozeReminder(w, medicationId, reminderTime).w

\* data.medicationId is present and a non-empty string
HasMedicationId(data) == Truthy(Get(data, "medicationId"))

\* data.reminderTime is present and a non-empty string
HasReminderTime(data) == "reminderTime" \in DOMAIN data /\ data.reminderTime # <<>>

\* a listener that dispatches on the action alone, whatever the data holds
OnNotificationResponse_NoGuard(w, actionIdentifier, data, t) ==
  IF actionIdentifier = "taken"
  THEN [w |-> HandleMedicationTaken(
                w, Get(data, "medicationId"), Get(data, "reminderTime"), t),
        threw |-> FALSE]
  ELSE IF actionIdentifier = "snooze"
  THEN [w |-> HandleSnoozeReminder(
                w, Get(data, "medicationId"), Get(data, "reminderTime")),
        threw |-> FALSE]
  ELSE [w |-> w, threw |-> FALSE]

\* a listener that dispatches on medicationId alone
OnNotificationResponse_IdOnly(w, actionIdentifier, data, t) ==
  IF ~HasMedicationId(data) THEN [w |-> w, threw |-> FALSE]
  ELSE IF actionIdentifier = "taken"
  THEN [w |-> HandleMedicationTaken(
                w, data.medicationId, Get(data, "reminderTime"), t),
        threw |-> FALSE]
  ELSE IF actionIdentifier = "snooze"
  THEN [w |-> HandleSnoozeReminder(w, data.medicationId, Get(data, "reminderTime")),
        threw |-> FALSE]
  ELSE [w |-> w, threw |-> FALSE]

\* a listener that runs the handlers' try blocks with no catch around them
OnNotificationResponse_Unprotected(w, actionIdentifier, data, t) ==
  IF ~HasMedicationId(data) \/ ~HasReminderTime(data) THEN [w |-> w, threw |-> FALSE]
  ELSE IF actionIdentifier = "taken"
       THEN TryHandleMedicationTaken(w, data.medicationId, data.reminderTime, t)
  ELSE IF actionIdentifier = "snooze"
       THEN TryHandleSnoozeReminder(w, data.medicationId, data.reminderTime)
  ELSE [w |-> w, threw |-> FALSE]

\* the listener of setupNotificationResponseListener, at clock reading t: w is
\* the platform state it ends in, threw whether its promise rejects (the
\* handlers catch what their try blocks throw, the listener what they throw)
OnNotificationResponse(w, actionIdentifier, data, t) ==
  IF ~HasMedicationId(data) \/ ~HasReminderTime(data) THEN [w |-> w, threw |-> FALSE]
  ELSE IF actionIdentifier = "taken"
       THEN [w |-> HandleMedicationTaken(w, data.medicationId, data.reminderTime, t),
             threw |-> FALSE]
  ELSE IF actionIdentifier = "snooze"
       THEN [w |-> HandleSnoozeReminder(w, data.medicationId, data.reminderTime),
             threw |-> FALSE]
  ELSE [w |-> w, threw |-> FALSE]

(***************************************************************************)
(* Handlers.  Ran(...) is what the handler that just ran leaves in last;    *)
(* Commit(w) installs the world the handler ended in.                       *)
(***************************************************************************)
Ran(op, arg, w, ret) ==
  [op |-> op, arg |-> arg, calls |-> w.calls, ret |-> ret]

Commit(w) ==
  /\ w.nextHandle <= MaxHandles + 1
  /\ storage' = w.storage
  /\ scheduled' = w.scheduled
  /\ nextHandle' = w.nextHandle
  /\ UNCHANGED <<isInitialized, listeners, isDevice, tasks>>

\* the parts that call the service: a screen and the useNotifications hook
Callers == {"screen", "hook"}

\* a caller with no call in flight
Idle == [pc |-> "idle"]

Init ==
  /\ storage = [k \in {RemindersKey, MedicationsKey} |-> Absent]
  /\ scheduled = {}
  /\ nextHandle = 1
  /\ now = 0
  /\ medications = <<>>
  /\ last = [op |-> "start", arg |-> [none |-> TRUE], calls |-> <<>>, ret |-> Undefined]
  /\ isInitialized = FALSE
  /\ listeners = 0
  /\ isDevice = TRUE
  /\ tasks = [c \in Callers |-> Idle]

(*************************** the medicine tab ******************************)
\* the outcomes of Math.round(... + Math.random() * 10 - 5) the model draws
RandomSteps == {-5, -1}
AdherenceFloor == 70

\* saveMedications(meds): the screen's state follows only a successful write
SaveMedications(w, meds) ==
  LET put == SetItem(w, MedicationsKey, JsonStringify(meds))
  IN [w |-> put.w, medications |-> IF put.threw THEN medications ELSE meds]

\* addMedication()
AddMedication(fail) ==
  /\ Len(medications) < MaxMeds
  /\ LET medication == [id |-> "m" \o ToString(Len(medications) + 1),
                        adherence |-> MaxAdherence,
                        reminderEnabled |-> TRUE]
         saved == SaveMedications(World(fail), Append(medications, medication))
     IN /\ Commit(saved.w)
        /\ medications' = saved.medications
        /\ last' = Ran("addMedication", medication, saved.w, Undefined)
  /\ UNCHANGED now

\* markAsTaken without Math.max(70, Math.min(100, ...))
MarkAsTaken_NoClamp(i, step, fail) ==
  /\ i \in 1..Len(medications)
  /\ now < MaxNow
  /\ LET id == medications[i].id
         updated ==
           [j \in 1..Len(medications) |->
              IF medications[j].id = id
              THEN With(With(medications[j], "lastTaken", ToISOString(now + 1)),
                        "adherence", medications[j].adherence + step)
              ELSE medications[j]]
         saved == SaveMedications(World(fail), updated)
     IN /\ Commit(saved.w)
        /\ medications' = saved.medications
        /\ last' = Ran("markAsTaken", [id |-> id], saved.w, Undefined)
  /\ now' = now + 1

\* markAsTaken(id), drawing step from Math.random
MarkAsTaken(i, step, fail) ==
  /\ i \in 1..Len(medications)
  /\ now < MaxNow
  /\ LET id == medications[i].id
         updated ==
           [j \in 1..Len(medications) |->
              IF medications[j].id = id
              THEN With(With(medications[j], "lastTaken", ToISOString(now + 1)),
                        "adherence",
                        Max(AdherenceFloor,
                            Min(MaxAdherence, medications[j].adherence + step)))
              ELSE medications[j]]
         saved == SaveMedications(World(fail), updated)
     IN /\ Commit(saved.w)
        /\ medications' = saved.medications
        /\ last' = Ran("markAsTaken", [id |-> id], saved.w, Undefined)
  /\ now' = now + 1

(********************* the callers of the service **************************)
\* ids of the reminders the setup screens created (Date.now().toString()), and
\* the medication each was created for
ReminderIds == {"r1", "r2"}

ReminderMedication == [r1 |-> "m1", r2 |-> "m2"]

MedicationIds == {"m" \o ToString(n) : n \in 1..MaxMeds}

\* the times of day a screen passes
ReminderTimes == {DefaultTime}

\* the days a screen passes: none, Sunday alone, Monday and Wednesday
ReminderDays == {<<>>, <<0>>, <<1, 3>>}

StoredReminders == IF storage[RemindersKey] = Absent THEN <<>> ELSE storage[RemindersKey][1]

StoredMedications == IF storage[MedicationsKey] = Absent THEN <<>> ELSE storage[MedicationsKey][1]

\* the reminders a screen can pass to scheduleReminder: a reminder it created,
\* with any time, days and enabled flag the screen can set, and carrying no
\* notificationId or the one stored for the reminder
ReminderInputs ==
  LET base == {[id |-> id, medicationId |-> ReminderMedication[id],
                scheduledTime |-> time, days |-> days, enabled |-> enabled] :
                 id \in ReminderIds, time \in ReminderTimes,
                 days \in ReminderDays, enabled \in BOOLEAN}
      held(r) == {Get(StoredReminders[k], "notificationId") :
                    k \in {j \in 1..Len(StoredReminders) : StoredReminders[j].id = r.id}}
  IN base \cup UNION {{With(r, "notificationId", h) : h \in held(r) \ {Undefined}} :
                        r \in base}

\* a screen calls scheduleReminder(reminder)
ScheduleReminderCalled(reminder, fail) ==
  /\ reminder \in ReminderInputs
  /\ LET res == ScheduleReminder(World(fail), reminder)
     IN /\ Commit(res.w)
        /\ last' = Ran("scheduleReminder", reminder, res.w, res.value)
  /\ UNCHANGED <<now, medications>>

\* a screen calls deleteReminder(reminderId)
DeleteReminderCalled(reminderId, fail) ==
  /\ LET w == DeleteReminder(World(fail), reminderId)
     IN /\ Commit(w)
        /\ last' = Ran("deleteReminder", [id |-> reminderId], w, Undefined)
  /\ UNCHANGED <<now, medications>>

\* the identifiers the scheduler has handed out or will hand out
NotificationIds == {"id" \o ToString(n) : n \in 1..MaxHandles}

\* a caller calls cancelReminder(notificationId)
CancelReminderCalled(notificationId, fail) ==
  /\ LET w == CancelReminder(World(fail), notificationId)
     IN /\ Commit(w)
        /\ last' = Ran("cancelReminder", [notificationId |-> notificationId], w, Undefined)
  /\ UNCHANGED <<now, medications>>

(************************ calls that interleave ***************************)
\* Each asynchronous method runs to its next await in one step; the steps of
\* two callers' calls interleave.  A task records where its call waits and
\* the call's local variables; last keeps describing the handler that last
\* ran as a whole.

\* setupNotificationResponseListener() and the flag that follows it
ListenerAdded(c) ==
  /\ listeners' = listeners + 1
  /\ isInitialized' = TRUE
  /\ tasks' = [tasks EXCEPT ![c] = Idle]

\* initialize(): the guard on isInitialized, then await requestPermissions()
InitializeCalled(c) ==
  /\ tasks[c] = Idle
  /\ tasks' = [tasks EXCEPT ![c] =
                IF isInitialized THEN Idle ELSE [pc |-> "requestPermissions"]]
  /\ UNCHANGED <<storage, scheduled, nextHandle, now, medications, last,
                 isInitialized, listeners, isDevice>>

\* requestPermissions() settles: a rejection is rethrown by initialize; else
\* on a device the push token is awaited next, elsewhere the listener is added
PermissionsSettled(c, rejected) ==
  /\ tasks[c].pc = "requestPermissions"
  /\ IF rejected
     THEN /\ tasks' = [tasks EXCEPT ![c] = Idle]
          /\ UNCHANGED <<isInitialized, listeners>>
     ELSE IF isDevice
     THEN /\ tasks' = [tasks EXCEPT ![c] = [pc |-> "registerForPushNotificationsAsync"]]
          /\ UNCHANGED <<isInitialized, listeners>>
     ELSE ListenerAdded(c)
  /\ UNCHANGED <<storage, scheduled, nextHandle, now, medications, last, isDevice>>

\* registerForPushNotificationsAsync() settles (it catches its own errors)
PushTokenSettled(c) ==
  /\ tasks[c].pc = "registerForPushNotificationsAsync"
  /\ ListenerAdded(c)
  /\ UNCHANGED <<storage, scheduled, nextHandle, now, medications, last, isDevice>>

\* where scheduleReminder waits after its i-1 first days are registered
AfterDay(task) ==
  IF task.i <= Len(task.reminder.days)
  THEN [task EXCEPT !.pc = "scheduleNotificationAsync"]
  ELSE [task EXCEPT !.pc = "getReminders"]

\* installs the platform state an asynchronous step ended in
Settle(w) ==
  /\ storage' = w.storage
  /\ scheduled' = w.scheduled
  /\ nextHandle' = w.nextHandle
  /\ UNCHANGED <<now, medications, last, isInitialized, listeners, isDevice>>

\* scheduleReminder(reminder) up to its first await
ScheduleReminderStarted(c, reminder) ==
  /\ tasks[c] = Idle
  /\ reminder.enabled
  /\ LET task == [pc |-> "cancelReminder", method |-> "scheduleReminder",
                  reminder |-> reminder, i |-> 1, notificationIds |-> <<>>,
                  reminders |-> <<>>]
     IN tasks' = [tasks EXCEPT ![c] =
                    IF Truthy(Get(reminder, "notificationId")) THEN task
                    ELSE AfterDay(task)]
  /\ Settle(World(NoFailure))

\* deleteReminder(reminderId) up to its first await
DeleteReminderStarted(c, reminderId) ==
  /\ tasks[c] = Idle
  /\ tasks' = [tasks EXCEPT ![c] =
                [pc |-> "getReminders", method |-> "deleteReminder",
                 reminderId |-> reminderId, reminders |-> <<>>]]
  /\ Settle(World(NoFailure))

\* await this.cancelReminder(...) settles, in scheduleReminder or deleteReminder
CancelSettled(c) ==
  /\ tasks[c].pc = "cancelReminder"
  /\ IF tasks[c].method = "scheduleReminder"
     THEN /\ Settle(CancelReminder(World(NoFailure), tasks[c].reminder.notificationId))
          /\ tasks' = [tasks EXCEPT ![c] = AfterDay(@)]
     ELSE LET found == SelectSeq(tasks[c].reminders,
                                 LAMBDA r : r.id = tasks[c].reminderId)
          IN /\ Settle(CancelReminder(World(NoFailure), found[1].notificationId))
             /\ tasks' = [tasks EXCEPT ![c].pc = "setItem"]

\* await Notifications.scheduleNotificationAsync(...) settles for day i
DayScheduled(c) ==
  /\ tasks[c].pc = "scheduleNotificationAsync"
  /\ nextHandle <= MaxHandles
  /\ LET task == tasks[c]
         r == ScheduleNotificationAsync(
                World(NoFailure), ReminderData(task.reminder),
                WeeklyTrigger(task.reminder.days[task.i],
                              ParseTime(task.reminder.scheduledTime)))
     IN /\ Settle(r.w)
        /\ tasks' = [tasks EXCEPT ![c] =
                       AfterDay([task EXCEPT !.i = @ + 1,
                                             !.notificationIds = Append(@, r.value)])]

\* await this.getReminders() settles, in saveReminder or deleteReminder
RemindersRead(c) ==
  /\ tasks[c].pc = "getReminders"
  /\ LET got == GetReminders(World(NoFailure))
         found == SelectSeq(got.value, LAMBDA r : r.id = tasks[c].reminderId)
     IN /\ Settle(got.w)
        /\ tasks' = [tasks EXCEPT ![c] =
                       [@ EXCEPT !.reminders = got.value,
                                 !.pc = IF /\ tasks[c].method = "deleteReminder"
                                           /\ found # <<>>
                                           /\ Truthy(Get(found[1], "notificationId"))
                                        THEN "cancelReminder" ELSE "setItem"]]

\* await AsyncStorage.setItem('medication_reminders', ...) settles
RemindersWritten(c) ==
  /\ tasks[c].pc = "setItem"
  /\ LET task == tasks[c]
         primaryNotificationId ==
           IF Len(task.notificationIds) > 0 THEN task.notificationIds[1] ELSE Undefined
         updatedReminders ==
           IF task.method = "scheduleReminder"
           THEN UpdatedReminders(
                  task.reminders,
                  With(task.reminder, "notificationId", primaryNotificationId))
           ELSE SelectSeq(task.reminders, LAMBDA r : r.id # task.reminderId)
     IN Settle(SetItem(World(NoFailure), RemindersKey,
                       JsonStringify(updatedReminders)).w)
  /\ tasks' = [tasks EXCEPT ![c] = Idle]

(*********************** notification responses ****************************)
DefaultAction == "expo.modules.notifications.actions.DEFAULT"

ActionIdentifiers == {"taken", "snooze", DefaultAction}

\* content.data of the notifications the user can respond to
ResponseData ==
  {[medicationId |-> m, reminderTime |-> DefaultTime, type |-> "medicine_reminder"] :
     m \in MedicationIds}
  \cup {[type |-> "confirmation"]}

\* content.data of the shapes a response can carry, for the first medication:
\* complete, lacking reminderTime, lacking medicationId, lacking both
RouterData ==
  {[medicationId |-> "m1", reminderTime |-> DefaultTime, type |-> "medicine_reminder"],
   [medicationId |-> "m1", type |-> "medicine_reminder"],
   [reminderTime |-> DefaultTime, type |-> "medicine_reminder"],
   [type |-> "confirmation"]}

\* the platform calls that reject while a response is handled: none, the
\* read, the write, the first or the second notification request
RouterFailures ==
  {NoFailure,
   [NoFailure EXCEPT !.getItem = TRUE],
   [NoFailure EXCEPT !.setItem = TRUE],
   [NoFailure EXCEPT !.schedule = 1],
   [NoFailure EXCEPT !.schedule = 2]}

\* the platform delivers a response to the listener
NotificationResponse(actionIdentifier, data, fail) ==
  /\ LET reads == actionIdentifier = "taken"
         t == IF reads THEN now + 1 ELSE now
         res == OnNotificationResponse(World(fail), actionIdentifier, data, t)
     IN /\ t <= MaxNow
        /\ Commit(res.w)
        /\ now' = t
        /\ last' = Ran("response",
                       [actionIdentifier |-> actionIdentifier, data |-> data,
                        fail |-> fail],
                       res.w, IF res.threw THEN "rejected" ELSE Undefined)
  /\ UNCHANGED medications

(************************ follow-up notifications **************************)
\* content.data of the weekly notifications of the first medication, at the
\* default time and at half past nine in the evening
FollowUpData ==
  {[medicationId |-> "m1", reminderTime |-> time, type |-> "medicine_reminder"] :
     time \in {DefaultTime, FormatTime(21, 30)}}

\* while a response is handled the platform resolves every call, or rejects
\* the request that presents the confirmation
FollowUpFailures == {NoFailure, [NoFailure EXCEPT !.schedule = 2]}

\* the pending requests that fire once
OneShots == {s \in scheduled : s.trigger.type = "timeInterval" /\ ~s.trigger.repeats}

\* a one-shot request fired, which ends it, and the user answered its
\* notification
FollowUpResponse(s, actionIdentifier, fail) ==
  /\ s \in OneShots
  /\ LET reads == actionIdentifier = "taken"
         t == IF reads THEN now + 1 ELSE now
         fired == [World(fail) EXCEPT !.scheduled = @ \ {s}]
         res == OnNotificationResponse(fired, actionIdentifier, s.data, t)
     IN /\ t <= MaxNow
        /\ Commit(res.w)
        /\ now' = t
        /\ last' = Ran("response",
                       [actionIdentifier |-> actionIdentifier, data |-> s.data,
                        fail |-> fail],
                       res.w, IF res.threw THEN "rejected" ELSE Undefined)
  /\ UNCHANGED medications

\* a one-shot request fired, which ends it, and its notification went
\* unanswered: no listener runs
FollowUpExpired(s) ==
  /\ s \in OneShots
  /\ scheduled' = scheduled \ {s}
  /\ last' = [op |-> "expired", arg |-> [identifier |-> s.identifier],
              calls |-> <<>>, ret |-> Undefined]
  /\ UNCHANGED <<storage, nextHandle, now, medications, isInitialized,
                 listeners, isDevice, tasks>>

(********************* a "taken" response in flight ************************)
\* the listener's place among the tasks
Listener == "listener"

\* the app is open with no call and no response in flight
InitAcknowledge ==
  /\ storage = [k \in {RemindersKey, MedicationsKey} |-> Absent]
  /\ scheduled = {}
  /\ nextHandle = 1
  /\ now = 0
  /\ medications = <<>>
  /\ last = [op |-> "start", arg |-> [none |-> TRUE], calls |-> <<>>, ret |-> Undefined]
  /\ isInitialized = FALSE
  /\ listeners = 0
  /\ isDevice = TRUE
  /\ tasks = [c \in Callers \cup {Listener} |-> Idle]

\* the listener dispatches a "taken" response to handleMedicationTaken, which
\* runs up to its first await
TakenStarted(data) ==
  /\ tasks[Listener].pc = "idle"
  /\ HasMedicationId(data) /\ HasReminderTime(data)
  /\ tasks' = [tasks EXCEPT ![Listener] =
                 [pc |-> "getItem", method |-> "handleMedicationTaken",
                  medicationId |-> data.medicationId]]
  /\ UNCHANGED <<storage, scheduled, nextHandle, now, medications, last,
                 isInitialized, listeners, isDevice>>

\* AsyncStorage.getItem('medications') settles: the handler returns if
\* nothing is stored, else maps the list read and runs up to the write
MedicationsRead ==
  /\ tasks[Listener].pc = "getItem"
  /\ IF storage[MedicationsKey] = Absent
     THEN /\ tasks' = [tasks EXCEPT ![Listener] = Idle]
          /\ UNCHANGED now
     ELSE /\ now < MaxNow
          /\ now' = now + 1
          /\ LET meds == JsonParse(storage[MedicationsKey][1])
                 medicationId == tasks[Listener].medicationId
                 updatedMedications ==
                   [i \in 1..Len(meds) |->
                      IF meds[i].id = medicationId
                      THEN With(With(meds[i], "lastTaken", ToISOString(now + 1)),
                                "adherence",
                                Min(MaxAdherence, meds[i].adherence + AdherenceBonus))
                      ELSE meds[i]]
             IN tasks' = [tasks EXCEPT ![Listener] =
                            [pc |-> "setItem", method |-> "handleMedicationTaken",
                             medicationId |-> medicationId,
                             medications |-> meds,
                             updatedMedications |-> updatedMedications]]
  /\ UNCHANGED <<storage, scheduled, nextHandle, medications, last,
                 isInitialized, listeners, isDevice>>

\* a write that maps the list stored at the time of the write
MedicationsWritten_Merged ==
  /\ tasks[Listener].pc = "setItem"
  /\ LET meds == StoredMedications
         updatedMedications ==
           [i \in 1..Len(meds) |->
              IF meds[i].id = tasks[Listener].medicationId
              THEN With(With(meds[i], "lastTaken", ToISOString(now)),
                        "adherence",
                        Min(MaxAdherence, meds[i].adherence + AdherenceBonus))
              ELSE meds[i]]
     IN storage' = [storage EXCEPT ![MedicationsKey] =
                      Stored(JsonStringify(updatedMedications))]
  /\ tasks' = [tasks EXCEPT ![Listener] =
                 [pc |-> "confirm", method |-> "handleMedicationTaken",
                  medicationId |-> tasks[Listener].medicationId]]
  /\ UNCHANGED <<scheduled, nextHandle, now, medications, last,
                 isInitialized, listeners, isDevice>>

\* AsyncStorage.setItem('medications', JSON.stringify(updatedMedications))
\* settles
MedicationsWritten ==
  /\ tasks[Listener].pc = "setItem"
  /\ storage' = [storage EXCEPT ![MedicationsKey] =
                   Stored(JsonStringify(tasks[Listener].updatedMedications))]
  /\ tasks' = [tasks EXCEPT ![Listener] =
                 [pc |-> "confirm", method |-> "handleMedicationTaken",
                  medicationId |-> tasks[Listener].medicationId]]
  /\ UNCHANGED <<scheduled, nextHandle, now, medications, last,
                 isInitialized, listeners, isDevice>>

\* showLocalNotification(...) settles and the handler returns
ConfirmationShown ==
  /\ tasks[Listener].pc = "confirm"
  /\ LET shown == ShowLocalNotification(World(NoFailure), [type |-> "confirmation"])
     IN /\ shown.w.nextHandle <= MaxHandles + 1
        /\ nextHandle' = shown.w.nextHandle
        /\ scheduled' = shown.w.scheduled
  /\ tasks' = [tasks EXCEPT ![Listener] = Idle]
  /\ UNCHANGED <<storage, now, medications, last, isInitialized, listeners,
                 isDevice>>

(**************************** adherence ************************************)
\* every outcome of Math.round(adherence + Math.random() * 10 - 5) - adherence
AdherenceSteps == -5..5

\* the tab holds one medication, stored with an adherence marking as taken
\* can have led to
InitAdherence ==
  /\ \E adherence \in AdherenceFloor..MaxAdherence :
       /\ medications = <<[id |-> "m1", adherence |-> adherence,
                           reminderEnabled |-> TRUE]>>
       /\ storage = [k \in {RemindersKey, MedicationsKey} |->
                       IF k = MedicationsKey
                       THEN Stored(JsonStringify(medications)) ELSE Absent]
  /\ scheduled = {}
  /\ nextHandle = 1
  /\ now = 0
  /\ last = [op |-> "start", arg |-> [none |-> TRUE], calls |-> <<>>, ret |-> Undefined]
  /\ isInitialized = FALSE
  /\ listeners = 0
  /\ isDevice = TRUE
  /\ tasks = [c \in Callers |-> Idle]

(************************* any time, any days ******************************)
Days == 0..(DaysPerWeek - 1)

\* a set of days as the array the setup screen keeps: toggleDay adds a day
\* with [...days, day].sort(), so the array is ascending and has no duplicate
RECURSIVE DaysArray(_)
DaysArray(D) ==
  IF D = {} THEN <<>>
  ELSE LET first == CHOOSE d \in D : \A e \in D : d <= e
       IN <<first>> \o DaysArray(D \ {first})

\* a freshly installed application about to schedule its first reminder, at
\* any time of day on any set of days
InitExpansion ==
  /\ storage = [k \in {RemindersKey, MedicationsKey} |-> Absent]
  /\ scheduled = {}
  /\ nextHandle = 1
  /\ now = 0
  /\ medications = <<>>
  /\ isInitialized = FALSE
  /\ listeners = 0
  /\ isDevice = TRUE
  /\ tasks = [c \in Callers |-> Idle]
  /\ \E h \in 0..(HoursPerDay - 1), m \in 0..(MinutesPerHour - 1), D \in SUBSET Days :
       last = [op |-> "start", arg |-> [hours |-> h, minutes |-> m, days |-> D],
               calls |-> <<>>, ret |-> Undefined]

\* the first scheduleReminder of an enabled reminder at the chosen time and days
ScheduleAnyTime ==
  /\ last.op = "start"
  /\ LET reminder == [id |-> "r1", medicationId |-> ReminderMedication["r1"],
                      scheduledTime |-> FormatTime(last.arg.hours, last.arg.minutes),
                      days |-> DaysArray(last.arg.days),
                      enabled |-> TRUE]
         res == ScheduleReminder(World(NoFailure), reminder)
     IN /\ storage' = res.w.storage
        /\ scheduled' = res.w.scheduled
        /\ nextHandle' = res.w.nextHandle
        /\ last' = Ran("scheduleAnyTime", With(last.arg, "reminder", reminder),
                       res.w, res.value)
  /\ UNCHANGED <<now, medications, isInitialized, listeners, isDevice, tasks>>

\* a freshly constructed service on a device or on a simulator
InitInterleaved ==
  /\ storage = [k \in {RemindersKey, MedicationsKey} |-> Absent]
  /\ scheduled = {}
  /\ nextHandle = 1
  /\ now = 0
  /\ medications = <<>>
  /\ last = [op |-> "start", arg |-> [none |-> TRUE], calls |-> <<>>, ret |-> Undefined]
  /\ isInitialized = FALSE
  /\ listeners = 0
  /\ isDevice \in BOOLEAN
  /\ tasks = [c \in Callers |-> Idle]

(***************************************************************************)
(* MapsIntegration.  An address is a sequence of one-character strings.     *)
(***************************************************************************)
\* the characters String.prototype.trim removes, as far as addresses hold them
Whitespace == {" ", "\t", "\n"}

\* [a-zA-Z]
Letters ==
  {"a", "b", "c", "d", "e", "f", "g", "h", "i", "j", "k", "l", "m",
   "n", "o", "p", "q", "r", "s", "t", "u", "v", "w", "x", "y", "z",
   "A", "B", "C", "D", "E", "F", "G", "H", "I", "J", "K", "L", "M",
   "N", "O", "P", "Q", "R", "S", "T", "U", "V", "W", "X", "Y", "Z"}

MinAddressLength == 10

\* s.trim()
RECURSIVE Trim(_)
Trim(s) ==
  IF s = <<>> THEN s
  ELSE IF Head(s) \in Whitespace THEN Trim(Tail(s))
  ELSE IF s[Len(s)] \in Whitespace THEN Trim(SubSeq(s, 1, Len(s) - 1))
  ELSE s

\* validateAddress with the length taken before trimming
ValidateAddress_UntrimmedLength(address) ==
  IF address = <<>> \/ Len(Trim(address)) = 0 THEN FALSE
  ELSE LET cleanAddress == Trim(address)
           hasNumber == \E i \in 1..Len(cleanAddress) : IsDigit(cleanAddress[i])
           hasText == \E i \in 1..Len(cleanAddress) : cleanAddress[i] \in Letters
           minLength == Len(address) >= MinAddressLength
       IN hasNumber /\ hasText /\ minLength

\* MapsIntegration.validateAddress(address)
ValidateAddress(address) ==
  IF address = <<>> \/ Len(Trim(address)) = 0 THEN FALSE
  ELSE LET cleanAddress == Trim(address)
           hasNumber == \E i \in 1..Len(cleanAddress) : IsDigit(cleanAddress[i])
           hasText == \E i \in 1..Len(cleanAddress) : cleanAddress[i] \in Letters
           minLength == Len(cleanAddress) >= MinAddressLength
       IN hasNumber /\ hasText /\ minLength

\* the characters the checked addresses are made of: a digit, a letter, a
\* blank
AddressChars == {"1", "a", " "}

\* the provider screen is about to validate an address of at most
\* MaxAddressLen characters
InitAddress ==
  /\ storage = [k \in {RemindersKey, MedicationsKey} |-> Absent]
  /\ scheduled = {}
  /\ nextHandle = 1
  /\ now = 0
  /\ medications = <<>>
  /\ isInitialized = FALSE
  /\ listeners = 0
  /\ isDevice = TRUE
  /\ tasks = [c \in Callers |-> Idle]
  /\ \E n \in 0..MaxAddressLen : \E address \in [1..n -> AddressChars] :
       last = [op |-> "start", arg |-> [address |-> address],
               calls |-> <<>>, ret |-> Undefined]

\* MapsIntegration.validateAddress(provider.address)
ValidateAddressCalled ==
  /\ last.op = "start"
  /\ last' = [op |-> "validateAddress", arg |-> last.arg, calls |-> <<>>,
              ret |-> ValidateAddress(last.arg.address)]
  /\ UNCHANGED <<storage, scheduled, nextHandle, now, medications,
                 isInitialized, listeners, isDevice, tasks>>

(***************************************************************************)
(* Specifications.  In each the platform resolves every call.               *)
(***************************************************************************)
\* the reminder lifecycle: the screens schedule and delete reminders
NextLifecycle ==
  \/ \E reminder \in ReminderInputs : ScheduleReminderCalled(reminder, NoFailure)
  \/ \E reminderId \in ReminderIds : DeleteReminderCalled(reminderId, NoFailure)

SpecLifecycle == Init /\ [][NextLifecycle]_vars

\* the reminder the response scenarios schedule: r1, enabled, on Sundays
ResponseReminders == {r \in ReminderInputs : r.id = "r1" /\ r.enabled /\ r.days = <<0>>}

\* responses to delivered notifications, beside the medicine tab
NextResponses ==
  \/ AddMedication(NoFailure)
  \/ \E i \in 1..MaxMeds, step \in RandomSteps : MarkAsTaken(i, step, NoFailure)
  \/ \E reminder \in ResponseReminders : ScheduleReminderCalled(reminder, NoFailure)
  \/ \E a \in ActionIdentifiers, data \in ResponseData :
       NotificationResponse(a, data, NoFailure)

SpecResponses == Init /\ [][NextResponses]_vars

\* the reminders the interleaved calls schedule: enabled, on Sundays
InterleavedReminders == {r \in ReminderInputs : r.enabled /\ r.days = <<0>>}

\* responses of every shape, with platform calls that may reject
NextRouter ==
  \/ AddMedication(NoFailure)
  \/ \E a \in ActionIdentifiers, data \in RouterData, fail \in RouterFailures :
       NotificationResponse(a, data, fail)

SpecRouter == Init /\ [][NextRouter]_vars

\* the AsyncStorage calls that reject during one operation: none, the reads,
\* the writes
StorageFailures ==
  {NoFailure,
   [NoFailure EXCEPT !.getItem = TRUE],
   [NoFailure EXCEPT !.setItem = TRUE]}

\* the reminders scheduled while storage may fail: enabled, on Sundays
FailureReminders == {r \in ReminderInputs : r.enabled /\ r.days = <<0>>}

\* scheduleReminder, deleteReminder and "taken" responses over a store whose
\* reads or writes may reject
NextFailures ==
  \/ AddMedication(NoFailure)
  \/ \E reminder \in FailureReminders, fail \in StorageFailures :
       ScheduleReminderCalled(reminder, fail)
  \/ \E reminderId \in ReminderIds, fail \in StorageFailures :
       DeleteReminderCalled(reminderId, fail)
  \/ \E data \in {d \in RouterData : HasMedicationId(d) /\ HasReminderTime(d)},
        fail \in StorageFailures :
       NotificationResponse("taken", data, fail)

SpecFailures == Init /\ [][NextFailures]_vars

\* the registrar calls that reject during one operation: none, the cancel,
\* the first or the second request
RegistrarFailures ==
  {NoFailure,
   [NoFailure EXCEPT !.cancel = TRUE],
   [NoFailure EXCEPT !.schedule = 1],
   [NoFailure EXCEPT !.schedule = 2]}

\* the reminders scheduled while the registrar may fail: enabled, on some day
RegistrarReminders == {r \in ReminderInputs : r.enabled /\ r.days # <<>>}

\* scheduleReminder and cancelReminder over a registrar whose calls may reject
NextRegistrar ==
  \/ \E reminder \in RegistrarReminders, fail \in RegistrarFailures :
       ScheduleReminderCalled(reminder, fail)
  \/ \E notificationId \in NotificationIds, fail \in RegistrarFailures :
       CancelReminderCalled(notificationId, fail)

SpecRegistrar == Init /\ [][NextRegistrar]_vars

\* responses to weekly notifications and to the follow-ups of deferred ones
NextFollowUp ==
  \/ AddMedication(NoFailure)
  \/ \E i \in 1..MaxMeds : MarkAsTaken(i, -5, NoFailure)
  \/ \E a \in {"taken", "snooze"}, data \in FollowUpData, fail \in FollowUpFailures :
       NotificationResponse(a, data, fail)
  \/ \E s \in scheduled, a \in {"taken", "snooze"}, fail \in FollowUpFailures :
       FollowUpResponse(s, a, fail)
  \/ \E s \in scheduled : FollowUpExpired(s)

SpecFollowUp == Init /\ [][NextFollowUp]_vars

\* the medicine tab while a "taken" response is handled
NextAcknowledge ==
  \/ AddMedication(NoFailure)
  \/ \E i \in 1..MaxMeds, step \in RandomSteps : MarkAsTaken(i, step, NoFailure)
  \/ \E data \in ResponseData : TakenStarted(data)
  \/ MedicationsRead
  \/ MedicationsWritten
  \/ ConfirmationShown

SpecAcknowledge == InitAcknowledge /\ [][NextAcknowledge]_vars

\* everything that writes an adherence: creation, marking as taken with any
\* draw, "taken" responses
NextAdherence ==
  \/ AddMedication(NoFailure)
  \/ \E i \in 1..MaxMeds, step \in AdherenceSteps : MarkAsTaken(i, step, NoFailure)
  \/ \E data \in ResponseData : NotificationResponse("taken", data, NoFailure)

SpecAdherence == InitAdherence /\ [][NextAdherence]_vars

\* the validation of every address
NextAddress == ValidateAddressCalled

SpecAddress == InitAddress /\ [][NextAddress]_vars

\* the medicine tab while two callers' initialize() calls are in flight
NextInitialize ==
  \/ \E c \in Callers : InitializeCalled(c)
  \/ \E c \in Callers, rejected \in BOOLEAN : PermissionsSettled(c, rejected)
  \/ \E c \in Callers : PushTokenSettled(c)
  \/ AddMedication(NoFailure)
  \/ \E i \in 1..MaxMeds, step \in RandomSteps : MarkAsTaken(i, step, NoFailure)

SpecInitialize == InitInterleaved /\ [][NextInitialize]_vars

\* two callers' calls of scheduleReminder and deleteReminder, interleaved at
\* their awaits
NextInterleaved ==
  \/ \E c \in Callers, reminder \in InterleavedReminders :
       ScheduleReminderStarted(c, reminder)
  \/ \E c \in Callers, reminderId \in ReminderIds : DeleteReminderStarted(c, reminderId)
  \/ \E c \in Callers : CancelSettled(c)
  \/ \E c \in Callers : DayScheduled(c)
  \/ \E c \in Callers : RemindersRead(c)
  \/ \E c \in Callers : RemindersWritten(c)

SpecInterleaved == Init /\ [][NextInterleaved]_vars

\* the expansion of every time of day and every set of days
NextExpansion == ScheduleAnyTime

SpecExpansion == InitExpansion /\ [][NextExpansion]_vars

(***************************************************************************)
(* Properties.  last holds the handler that ran last: last.arg its input,   *)
(* last.calls the platform calls it issued, in order, last.ret its result.  *)
(***************************************************************************)
RegistrarCalls(calls) == SelectSeq(calls, IsRegistrarCall)
RegisterCalls(calls) == SelectSeq(calls, IsRegisterCall)
CancelCalls(calls) == SelectSeq(calls, IsCancelCall)
WriteCalls(calls) == SelectSeq(calls, IsWriteCall)
NoneRejected(calls) == \A i \in 1..Len(calls) : ~calls[i].rejected

\* the stored reminders with the given id
StoredWithId(id) == SelectSeq(StoredReminders, LAMBDA r : r.id = id)

\* C1: scheduleReminder called on a reminder with enabled = false returns null
\* and issues no registrar call, neither a register nor a cancel, whatever the
\* reminder's days, time and notificationId.
C1_DisabledScheduleDoesNothing ==
  (last.op = "scheduleReminder" /\ ~last.arg.enabled) =>
    /\ last.ret = Null
    /\ RegistrarCalls(last.calls) = <<>>

\* a disabled reminder that has days and a stored notificationId was scheduled
C1_Witness ==
  /\ last.op = "scheduleReminder"
  /\ ~last.arg.enabled
  /\ last.arg.days # <<>>
  /\ Truthy(Get(last.arg, "notificationId"))

\* C2: scheduleReminder called on an enabled reminder whose notificationId is
\* set issues exactly one cancel call, for that id, and issues it before every
\* register call of the same scheduleReminder call.
C2_OneCancelBeforeRegisters ==
  (last.op = "scheduleReminder" /\ last.arg.enabled
     /\ Truthy(Get(last.arg, "notificationId"))) =>
    /\ Len(CancelCalls(last.calls)) = 1
    /\ CancelCalls(last.calls)[1].identifier = last.arg.notificationId
    /\ \A i, j \in 1..Len(last.calls) :
         (IsCancelCall(last.calls[i]) /\ IsRegisterCall(last.calls[j])) => i < j

\* an enabled reminder with a stored notificationId and two days was scheduled
C2_Witness ==
  /\ last.op = "scheduleReminder"
  /\ last.arg.enabled
  /\ Truthy(Get(last.arg, "notificationId"))
  /\ Len(RegisterCalls(last.calls)) = 2
  /\ Len(CancelCalls(last.calls)) = 1

\* C3: when no platform call fails, scheduleReminder on an enabled reminder
\* with k >= 1 days issues exactly k register calls and returns the id of the
\* first; afterwards the stored reminder with that id carries that id as its
\* notificationId, which is no null value.
C3_RegistersEachDayKeepsFirst ==
  (last.op = "scheduleReminder" /\ last.arg.enabled /\ Len(last.arg.days) >= 1
     /\ NoneRejected(last.calls)) =>
    /\ Len(RegisterCalls(last.calls)) = Len(last.arg.days)
    /\ last.ret = RegisterCalls(last.calls)[1].identifier
    /\ Truthy(last.ret)
    /\ Len(StoredWithId(last.arg.id)) = 1
    /\ Get(StoredWithId(last.arg.id)[1], "notificationId") = last.ret

\* an enabled reminder with two days was scheduled
C3_Witness ==
  /\ last.op = "scheduleReminder"
  /\ last.arg.enabled
  /\ Len(last.arg.days) = 2
  /\ Len(RegisterCalls(last.calls)) = 2

\* C4, as claimed: scheduleReminder on a reminder with enabled = true and no
\* days returns null and makes no registrar call (undefined, JavaScript's other
\* null value, is taken as null).
C4_EmptyDaysReturnsNullNoCall ==
  (last.op = "scheduleReminder" /\ last.arg.enabled /\ last.arg.days = <<>>) =>
    /\ last.ret \in {Null, Undefined}
    /\ RegistrarCalls(last.calls) = <<>>

\* C4, amended: scheduleReminder on a reminder with enabled = true and no days
\* makes no register call and returns no handle; it issues one cancel call,
\* for the reminder's notificationId, when the reminder carries one, and no
\* registrar call at all when it carries none.
C4_EmptyDaysRegistersNothing ==
  (last.op = "scheduleReminder" /\ last.arg.enabled /\ last.arg.days = <<>>) =>
    /\ last.ret \in {Null, Undefined}
    /\ RegisterCalls(last.calls) = <<>>
    /\ IF Truthy(Get(last.arg, "notificationId"))
       THEN /\ Len(RegistrarCalls(last.calls)) = 1
            /\ IsCancelCall(RegistrarCalls(last.calls)[1])
            /\ RegistrarCalls(last.calls)[1].identifier = last.arg.notificationId
       ELSE RegistrarCalls(last.calls) = <<>>

\* an enabled reminder with no days and a stored notificationId was scheduled
C4_Witness ==
  /\ last.op = "scheduleReminder"
  /\ last.arg.enabled
  /\ last.arg.days = <<>>
  /\ Truthy(Get(last.arg, "notificationId"))

\* C5: deleteReminder(id) of a stored reminder that has a notificationId
\* issues exactly one cancel call, for that notificationId, and afterwards the
\* stored collection has no entry with that id and every other entry as it was.
C5_DeleteCancelsAndRemoves ==
  [][(last'.op = "deleteReminder"
        /\ StoredWithId(last'.arg.id) # <<>>
        /\ Truthy(Get(StoredWithId(last'.arg.id)[1], "notificationId"))) =>
       /\ Len(CancelCalls(last'.calls)) = 1
       /\ CancelCalls(last'.calls)[1].identifier =
            StoredWithId(last'.arg.id)[1].notificationId
       /\ StoredReminders' =
            SelectSeq(StoredReminders, LAMBDA r : r.id # last'.arg.id)]_vars

\* a reminder with a notificationId was deleted and another is still stored
C5_Witness ==
  /\ last.op = "deleteReminder"
  /\ Len(CancelCalls(last.calls)) = 1
  /\ StoredWithId(last.arg.id) = <<>>
  /\ Len(StoredReminders) = 1

\* C6: deleteReminder(id) of an id that is not in the stored collection makes
\* no registrar call and no write to the store.
C6_DeleteUnknownTouchesNothing ==
  [][(last'.op = "deleteReminder" /\ StoredWithId(last'.arg.id) = <<>>) =>
       /\ RegistrarCalls(last'.calls) = <<>>
       /\ WriteCalls(last'.calls) = <<>>]_vars

\* a response the listener dispatches on: it carries a medication id and a
\* reminder time
Dispatched(response, actionIdentifier) ==
  /\ response.op = "response"
  /\ response.arg.actionIdentifier = actionIdentifier
  /\ HasMedicationId(response.arg.data)
  /\ HasReminderTime(response.arg.data)

\* the stored medications with the given id
MedicationsWithId(id) == SelectSeq(StoredMedications, LAMBDA m : m.id = id)

\* C7: a "taken" response for a stored medication sets that medication's
\* adherence to min(100, old + 2) and its lastTaken to the current time, and
\* leaves its other fields and every other medication as they were.
C7_TakenRaisesAdherence ==
  [][(/\ Dispatched(last', "taken")
      /\ MedicationsWithId(last'.arg.data.medicationId) # <<>>) =>
       /\ Len(StoredMedications') = Len(StoredMedications)
       /\ \A i \in 1..Len(StoredMedications) :
            StoredMedications'[i] =
              IF StoredMedications[i].id = last'.arg.data.medicationId
              THEN [With(StoredMedications[i], "lastTaken", ToISOString(now'))
                      EXCEPT !.adherence =
                        IF @ + 2 < 100 THEN @ + 2 ELSE 100]
              ELSE StoredMedications[i]]_vars

\* a "taken" response raised a stored medication from 95 to 97 while another
\* medication is stored beside it
C7_Witness ==
  /\ Dispatched(last, "taken")
  /\ Len(StoredMedications) = 2
  /\ \E i \in 1..Len(StoredMedications) :
       /\ StoredMedications[i].id = last.arg.data.medicationId
       /\ StoredMedications[i].adherence = 97
       /\ Get(StoredMedications[i], "lastTaken") = ToISOString(now)

\* C8: a "taken" response for a medication id that is not stored leaves the
\* medication collection, stored and on screen, as it was.
C8_TakenUnknownChangesNothing ==
  [][(/\ Dispatched(last', "taken")
      /\ MedicationsWithId(last'.arg.data.medicationId) = <<>>) =>
       /\ storage'[MedicationsKey] = storage[MedicationsKey]
       /\ medications' = medications]_vars

\* a "taken" response named a medication that is not among the stored ones
C8_Witness ==
  /\ Dispatched(last, "taken")
  /\ StoredMedications # <<>>
  /\ MedicationsWithId(last.arg.data.medicationId) = <<>>
  /\ WriteCalls(last.calls) # <<>>

\* C9: a "snooze" response registers exactly one trigger, non-repeating and
\* 15 minutes ahead, cancels nothing, keeps every pending request and leaves
\* the medication records as they were.
C9_SnoozeRegistersOneShot ==
  [][Dispatched(last', "snooze") =>
       /\ Len(RegisterCalls(last'.calls)) = 1
       /\ RegisterCalls(last'.calls)[1].trigger =
            [type |-> "timeInterval", seconds |-> 900, repeats |-> FALSE]
       /\ CancelCalls(last'.calls) = <<>>
       /\ scheduled \subseteq scheduled'
       /\ Cardinality(scheduled') = Cardinality(scheduled) + 1
       /\ storage'[MedicationsKey] = storage[MedicationsKey]
       /\ medications' = medications]_vars

\* a "snooze" response arrived while the medication's weekly reminder was
\* pending, and both requests are pending now
C9_Witness ==
  /\ Dispatched(last, "snooze")
  /\ StoredMedications # <<>>
  /\ \E s \in scheduled :
       /\ s.trigger.type = "weekly"
       /\ s.data.medicationId = last.arg.data.medicationId
  /\ \E s \in scheduled :
       /\ s.trigger.type = "timeInterval"
       /\ s.data.medicationId = last.arg.data.medicationId

C11_AtMostOneListener == listeners <= 1

\* C12: the stored reminders never hold two entries with the same id, however
\* scheduleReminder and deleteReminder calls interleave.
C12_NoDuplicateIds ==
  \A i, j \in 1..Len(StoredReminders) :
    StoredReminders[i].id = StoredReminders[j].id => i = j

\* both callers are about to write the reminders they read earlier, each
\* saving the same reminder id, and one of them read before the other
\* reminder was stored
C12_Witness ==
  /\ \A c \in Callers :
       /\ tasks[c].pc = "setItem"
       /\ tasks[c].method = "scheduleReminder"
       /\ tasks[c].reminder.id = "r1"
  /\ \E c \in Callers : tasks[c].reminders # StoredReminders
  /\ \E k \in 1..Len(StoredReminders) : StoredReminders[k].id = "r2"

\* the pending weekly requests that were registered for a reminder: those
\* whose data names the reminder's medication
TriggersOf(reminderId, requests) ==
  {s \in requests : /\ s.data.type = "medicine_reminder"
                    /\ s.data.medicationId = ReminderMedication[reminderId]}

\* C13, as claimed: each stored reminder has no notificationId if and only if
\* no trigger is registered for it.
C13_HandleIffRegistered ==
  \A k \in 1..Len(StoredReminders) :
    (Get(StoredReminders[k], "notificationId") = Undefined)
      <=> (TriggersOf(StoredReminders[k].id, scheduled) = {})

\* C14, as claimed: every stored reminder with enabled = true has at least one
\* entry in days.
C14_EnabledHasDays ==
  \A k \in 1..Len(StoredReminders) :
    StoredReminders[k].enabled => Len(StoredReminders[k].days) >= 1

\* C15, as claimed: when a reminder with registered triggers goes through
\* scheduleReminder with enabled = false, its stored time and days stay as
\* they were and no trigger of it remains registered.
C15_DisableKeepsConfigDropsTriggers ==
  [][(/\ last'.op = "scheduleReminder"
      /\ ~last'.arg.enabled
      /\ TriggersOf(last'.arg.id, scheduled) # {}) =>
       /\ LET before == StoredWithId(last'.arg.id)
              after == SelectSeq(StoredReminders', LAMBDA r : r.id = last'.arg.id)
          IN /\ Len(after) = Len(before)
             /\ \A k \in 1..Len(before) :
                  /\ after[k].scheduledTime = before[k].scheduledTime
                  /\ after[k].days = before[k].days
       /\ TriggersOf(last'.arg.id, scheduled') = {}]_vars

\* C16, as claimed: after scheduleReminder the registered triggers of the
\* reminder are exactly those this call registered, and after deleteReminder
\* none of the reminder's triggers is registered.
C16_NoDuplicateNoOrphanTriggers ==
  [][/\ last'.op = "scheduleReminder" =>
          {s.identifier : s \in TriggersOf(last'.arg.id, scheduled')}
            = {RegisterCalls(last'.calls)[k].identifier :
                 k \in 1..Len(RegisterCalls(last'.calls))}
     /\ last'.op = "deleteReminder" =>
          TriggersOf(last'.arg.id, scheduled') = {}]_vars

\* C17, as claimed: a "taken" response whose data carries a medicationId runs
\* handleMedicationTaken for that id, whatever else the data holds.
C17_TakenDispatchesOnIdAlone ==
  [][(/\ last'.op = "response"
      /\ last'.arg.actionIdentifier = "taken"
      /\ HasMedicationId(last'.arg.data)) =>
       LET ran == HandleMedicationTaken(
                    World(last'.arg.fail), last'.arg.data.medicationId,
                    Get(last'.arg.data, "reminderTime"), now')
       IN /\ last'.calls = ran.calls
          /\ storage' = ran.storage]_vars

\* C17, amended: a "taken" response whose data carries a medicationId and a
\* reminderTime runs handleMedicationTaken for that id; one whose data carries
\* a medicationId and no reminderTime is dropped: no call is made and nothing
\* stored changes.
C17_TakenDispatchesOnIdAndTime ==
  [][(/\ last'.op = "response"
      /\ last'.arg.actionIdentifier = "taken"
      /\ HasMedicationId(last'.arg.data)) =>
       IF HasReminderTime(last'.arg.data)
       THEN LET ran == HandleMedicationTaken(
                         World(last'.arg.fail), last'.arg.data.medicationId,
                         last'.arg.data.reminderTime, now')
            IN /\ last'.calls = ran.calls
               /\ storage' = ran.storage
       ELSE /\ last'.calls = <<>>
            /\ storage' = storage]_vars

\* a "taken" response that named a stored medication and no reminderTime was
\* dropped
C17_Witness ==
  /\ last.op = "response"
  /\ last.arg.actionIdentifier = "taken"
  /\ HasMedicationId(last.arg.data)
  /\ ~HasReminderTime(last.arg.data)
  /\ MedicationsWithId(last.arg.data.medicationId) # <<>>
  /\ last.calls = <<>>

\* C18: a response whose data lacks medicationId, or whose action is neither
\* "taken" nor "snooze", changes nothing: both stored collections and the
\* pending requests stay as they were and no platform call is made, so no
\* trigger is registered or cancelled and no notification sent.
C18_OtherResponsesChangeNothing ==
  [][(/\ last'.op = "response"
      /\ \/ ~HasMedicationId(last'.arg.data)
         \/ last'.arg.actionIdentifier \notin {"taken", "snooze"}) =>
       /\ storage' = storage
       /\ scheduled' = scheduled
       /\ nextHandle' = nextHandle
       /\ medications' = medications
       /\ last'.calls = <<>>]_vars

\* a "taken" response without medicationId arrived while medications are
\* stored
C18_Witness ==
  /\ last.op = "response"
  /\ last.arg.actionIdentifier = "taken"
  /\ ~HasMedicationId(last.arg.data)
  /\ HasReminderTime(last.arg.data)
  /\ StoredMedications # <<>>

\* C19: the listener's promise never rejects, whichever platform call rejects
\* inside handleMedicationTaken or handleSnoozeReminder.
C19_ListenerNeverRejects ==
  last.op = "response" => last.ret # "rejected"

\* the confirmation of a "taken" response was rejected after the medications
\* were written
C19_Witness ==
  /\ last.op = "response"
  /\ last.arg.actionIdentifier = "taken"
  /\ \E k \in 1..Len(last.calls) :
       /\ IsScheduleCall(last.calls[k])
       /\ last.calls[k].trigger = ImmediateTrigger
       /\ last.calls[k].rejected
  /\ \E k \in 1..Len(last.calls) : IsWriteCall(last.calls[k]) /\ ~last.calls[k].rejected

\* an AsyncStorage call of the operation was rejected
StorageCallRejected(calls) ==
  \E k \in 1..Len(calls) :
    calls[k].op \in {"getItem", "setItem"} /\ calls[k].rejected

\* C20, as claimed: when a read or a write of AsyncStorage rejects during
\* scheduleReminder, deleteReminder or the handling of a "taken" response, the
\* stored reminders and the stored medications are afterwards what they were.
C20_StorageFailureChangesNothing ==
  [][(/\ \/ last'.op \in {"scheduleReminder", "deleteReminder"}
         \/ Dispatched(last', "taken")
      /\ StorageCallRejected(last'.calls)) =>
       /\ StoredReminders' = StoredReminders
       /\ StoredMedications' = StoredMedications]_vars

\* a register call of the operation was rejected
RegisterCallRejected(calls) ==
  \E k \in 1..Len(calls) : IsRegisterCall(calls[k]) /\ calls[k].rejected

\* C21: when the registrar rejects a register call inside scheduleReminder,
\* the call returns null and the stored reminders, the reminder's entry and
\* its notificationId included, are what they were before the call.
C21_RejectedRegisterReturnsNull ==
  [][(last'.op = "scheduleReminder" /\ RegisterCallRejected(last'.calls)) =>
       /\ last'.ret = Null
       /\ storage' = storage
       /\ WriteCalls(last'.calls) = <<>>]_vars

\* the second day's request of a stored reminder was rejected after the first
\* was registered
C21_Witness ==
  /\ last.op = "scheduleReminder"
  /\ Len(RegisterCalls(last.calls)) = 2
  /\ ~RegisterCalls(last.calls)[1].rejected
  /\ RegisterCalls(last.calls)[2].rejected
  /\ StoredWithId(last.arg.id) # <<>>

C29_FailedScheduleRestoresRegistrar ==
  [][(last'.op = "scheduleReminder" /\ RegisterCallRejected(last'.calls)) =>
       /\ \A k \in 1..Len(RegisterCalls(last'.calls)) :
            \A s \in scheduled' :
              s.identifier # RegisterCalls(last'.calls)[k].identifier
       /\ \A k \in 1..Len(StoredReminders') :
            (/\ StoredReminders'[k].id = last'.arg.id
             /\ \E s \in scheduled :
                  s.identifier = Get(StoredReminders'[k], "notificationId")) =>
               \E s \in scheduled' :
                 s.identifier = Get(StoredReminders'[k], "notificationId")]_vars

\* C30, as claimed: whenever scheduleReminder returns a handle, the stored
\* reminders hold the reminder with that id and with notificationId equal to
\* the handle returned.
C30_ReturnedHandleIsStored ==
  (last.op = "scheduleReminder" /\ Truthy(last.ret)) =>
    \E k \in 1..Len(StoredReminders) :
      /\ StoredReminders[k].id = last.arg.id
      /\ Get(StoredReminders[k], "notificationId") = last.ret

\* C23: validateAddress(address) is true exactly when the address without its
\* leading and trailing whitespace holds a digit and an ASCII letter and has
\* at least 10 characters; it is false for the empty address, for one of
\* whitespace only, and for one without a digit or without a letter.
C23_ValidateAddress ==
  last.op = "validateAddress" =>
    LET address == last.arg.address
        inked == {i \in 1..Len(address) : address[i] \notin {" ", "\t", "\n"}}
        first == CHOOSE i \in inked : \A j \in inked : i <= j
        final == CHOOSE i \in inked : \A j \in inked : j <= i
        trimmedLength == IF inked = {} THEN 0 ELSE final - first + 1
        digit == \E i \in inked : address[i] \in {"0", "1", "2", "3", "4", "5", "6", "7", "8", "9"}
        letter == \E i \in inked : address[i] \in Letters
    IN /\ last.ret = (digit /\ letter /\ trimmedLength >= 10)
       /\ (inked = {} \/ ~digit \/ ~letter) => last.ret = FALSE

\* an address of ten characters that count and one of nine behind a blank
\* give different answers
C23_Witness ==
  /\ last.op = "validateAddress"
  /\ Len(last.arg.address) = 10
  /\ last.arg.address[1] = " "
  /\ last.arg.address[2] = "1"
  /\ last.arg.address[10] = "a"
  /\ last.ret = FALSE

\* C24: the one-shot a "snooze" response registers carries the medicationId
\* and reminderTime of the notification answered; a "taken" response to the
\* one-shot's notification raises the adherence of the stored medication of
\* that id by 2 up to 100 and sets its lastTaken, as one to the weekly
\* notification does, and changes no other medication; a "snooze" response to
\* the one-shot's notification registers one new one-shot; a one-shot that
\* goes unanswered changes nothing the program keeps.
C24_FollowUpKeepsPayload ==
  [][/\ Dispatched(last', "snooze") =>
          /\ Len(RegisterCalls(last'.calls)) = 1
          /\ \E s \in scheduled' \ scheduled :
               /\ scheduled' \ scheduled = {s}
               /\ s.trigger.type = "timeInterval"
               /\ s.trigger.repeats = FALSE
               /\ s.data.medicationId = last'.arg.data.medicationId
               /\ s.data.reminderTime = last'.arg.data.reminderTime
     /\ (/\ Dispatched(last', "taken")
         /\ last'.arg.data.type = "snoozed_reminder") =>
          /\ Len(StoredMedications') = Len(StoredMedications)
          /\ \A i \in 1..Len(StoredMedications) :
               StoredMedications'[i] =
                 IF StoredMedications[i].id = last'.arg.data.medicationId
                 THEN [With(StoredMedications[i], "lastTaken", ToISOString(now'))
                         EXCEPT !.adherence = IF @ + 2 < 100 THEN @ + 2 ELSE 100]
                 ELSE StoredMedications[i]
     /\ last'.op = "expired" =>
          /\ storage' = storage
          /\ medications' = medications
          /\ nextHandle' = nextHandle
          /\ scheduled' \subseteq scheduled]_vars

\* a "taken" response to the follow-up of a deferred notification for the
\* first medication, at a time other than the default one, raised that
\* medication from 95 to 97 and left the second at 100
C24_Witness ==
  /\ Dispatched(last, "taken")
  /\ last.arg.data.type = "snoozed_reminder"
  /\ last.arg.data.medicationId = "m1"
  /\ last.arg.data.reminderTime # DefaultTime
  /\ Len(StoredMedications) = 2
  /\ StoredMedications[1].adherence = 97
  /\ StoredMedications[2].adherence = 100
  /\ Get(StoredMedications[1], "lastTaken") = ToISOString(now)

\* C25: neither writer merges.  What handleMedicationTaken writes is the
\* list it read with the one medication raised, whatever the medicine tab has
\* stored since; what markAsTaken writes is the list the tab holds with the
\* one medication changed, whatever a response has stored since.  So a
\* markAsTaken between the read and the write of a "taken" response is lost.
C25_LastWriteWins ==
  [][/\ (tasks[Listener].pc = "setItem" /\ tasks'[Listener].pc = "confirm") =>
          /\ Len(StoredMedications') = Len(tasks[Listener].medications)
          /\ \A i \in 1..Len(StoredMedications') :
               LET read == tasks[Listener].medications[i]
               IN IF read.id = tasks[Listener].medicationId
                  THEN StoredMedications'[i] =
                         [With(read, "lastTaken", Get(StoredMedications'[i], "lastTaken"))
                            EXCEPT !.adherence = IF @ + 2 < 100 THEN @ + 2 ELSE 100]
                  ELSE StoredMedications'[i] = read
     /\ (last'.op = "markAsTaken" /\ last' # last) =>
          /\ Len(StoredMedications') = Len(medications)
          /\ \A i \in 1..Len(medications) :
               medications[i].id # last'.arg.id => StoredMedications'[i] = medications[i]]_vars

\* the tab marked the first medication as taken, lowering it from 100 to 95,
\* between the read and the write of a "taken" response for it: the stored
\* adherence is 100, neither the tab's 95 nor the 97 of both updates
C25_Witness ==
  /\ tasks[Listener].pc = "confirm"
  /\ tasks[Listener].medicationId = "m1"
  /\ last.op = "markAsTaken"
  /\ last.arg.id = "m1"
  /\ medications[1].adherence = 95
  /\ StoredMedications[1].id = "m1"
  /\ StoredMedications[1].adherence = 100

\* C26: whatever sequence of creations, markings as taken and "taken"
\* responses has run, every stored medication has an adherence that is an
\* integer from 0 to 100.
C26_AdherenceInRange ==
  \A i \in 1..Len(StoredMedications) : StoredMedications[i].adherence \in 0..100

\* marking as taken left the first medication at the floor of 70 while the
\* second, created since, is stored at 100
C26_Witness ==
  /\ last.op = "markAsTaken"
  /\ last.arg.id = "m1"
  /\ Len(StoredMedications) = 2
  /\ StoredMedications[1].adherence = 70
  /\ StoredMedications[2].adherence = 100

\* C27: when the last thing that ran was a "taken" response for a stored
\* medication, and the medicine tab then adds a medication or marks another
\* one as taken, the stored record of the acknowledged medication stays as
\* the response left it.
C27_LaterTabWriteKeepsAcknowledge ==
  [][(/\ Dispatched(last, "taken")
      /\ MedicationsWithId(last.arg.data.medicationId) # <<>>
      /\ \/ last'.op = "addMedication"
         \/ last'.op = "markAsTaken" /\ last'.arg.id # last.arg.data.medicationId) =>
       \A i \in 1..Len(StoredMedications) :
         StoredMedications[i].id = last.arg.data.medicationId =>
           StoredMedications'[i] = StoredMedications[i]]_vars

\* C28: when two calls of scheduleReminder for the same reminder, passed the
\* same stored notificationId, overlap and both have finished with the
\* registrar (each has only its write ahead), the triggers registered for the
\* reminder are those of one of the two calls alone.
C28_OverlappingSchedulesLeaveOneCall ==
  \A c \in Callers, d \in Callers :
    (/\ c # d
     /\ tasks[c].pc = "setItem" /\ tasks[d].pc = "setItem"
     /\ tasks[c].method = "scheduleReminder" /\ tasks[d].method = "scheduleReminder"
     /\ tasks[c].reminder.id = tasks[d].reminder.id
     /\ Truthy(Get(tasks[c].reminder, "notificationId"))
     /\ Get(tasks[c].reminder, "notificationId") = Get(tasks[d].reminder, "notificationId")) =>
      \E e \in {c, d} :
        {s.identifier : s \in TriggersOf(tasks[c].reminder.id, scheduled)}
          \subseteq {tasks[e].notificationIds[k] : k \in 1..Len(tasks[e].notificationIds)}

====
